---- MODULE Spec2Model ----
(***************************************************************************)
(* Model of the lo-fi video automation: the batch runner (run_multiple),   *)
(* the pipeline orchestrator (run_pipeline), the generation job poller     *)
(* (SunoAPI.generate_music under its retry decorator), the other retried   *)
(* network calls, the uploader and the wake lock.                          *)
(*                                                                         *)
(* The model starts at the entry of main(): the platform check, the        *)
(* constructor with its validation of the credentials, and the dispatch on *)
(* the command line precede the runs.                                      *)
(*                                                                         *)
(* The program is single threaded; pc is the position of that one thread.  *)
(* The outcomes of external calls (HTTP responses, the OS call, ffmpeg,    *)
(* the wall clock) are the inputs and are chosen with \E.                  *)
(***************************************************************************)
EXTENDS Integers, Sequences, FiniteSets, TLC

\* ------------------------------------------------------------------ bounds
\* number of pipeline runs of the batch (the count argument of run_multiple)
Count == 2
\* distinct values the second-resolution timestamp takes in the model
MaxRunId == 2
\* calls made on the two WakeLock instances
MaxLockOps == 3
\* values of the progress a status of the chunk loop reports
MaxProgress == 1

\* ------------------------------------------------------- program constants
\* suno.py:86  max_attempts = 60
max_attempts == 60
\* suno.py:91  time.sleep(5)
PollInterval == 5

RunIds == 1..MaxRunId

\* the six steps of run_pipeline in the order of the code (main.py:168-222)
StepOrder == <<"prompt", "audio", "assets", "mux", "upload", "persist">>

\* the calls wrapped by @retry
RetriedCalls == {"gm", "dl", "meta", "thumb", "up_video", "up_thumb"}

\* a decorator that allows a fourth try
TriesFour(call) == 4

\* @retry(tries=3, ...) on every wrapped call
Tries(call) == 3
\* a decorator with the same delay on every call
DelayFive(call) == 5

\* @retry(delay=5) everywhere but upload_video, which has delay=10
Delay(call) == IF call = "up_video" THEN 10 ELSE 5
\* a decorator without backoff
BackoffNone(call) == 1

\* @retry(backoff=2) on every wrapped call
Backoff(call) == 2

\* keys the metadata JSON is asked to hold (openai_gen.py:44)
AllKeys == {"title", "description", "tags", "thumbnail_prompt"}
\* the parsed JSON is not validated: any one key may be missing
MetaKeySets == {AllKeys} \cup {AllKeys \ {k} : k \in AllKeys}
\* keys read by upload_complete_video (youtube_upload.py:202-204)
UploadKeys == {"title", "description", "tags"}
\* keys read when the record is built (main.py:210-213)
RecordKeys == {"title", "description", "tags", "thumbnail_prompt"}

\* shapes of the payload of a completed job (suno.py:171-180)
ListShapes == {"absent", "empty", "nourl", "url"}
UrlShapes == {"absent", "none", "url"}
Payloads == [clips : ListShapes, audio_url : UrlShapes, data : ListShapes]
NoPayload == [clips |-> "none"]

\* the environment variables _validate_env_vars requires (main.py:74-79)
CredNames == {"COMET_API_KEY", "OPENAI_API_KEY", "YOUTUBE_CLIENT_ID",
              "YOUTUBE_CLIENT_SECRET"}
\* what os.getenv can return: None (set is FALSE) or a string, here the
\* sequence of its characters
NoneValue == [set |-> FALSE, text |-> <<>>]
CredValues == {NoneValue,
               [set |-> TRUE, text |-> <<>>],
               [set |-> TRUE, text |-> <<"y", "o", "u", "r", "_">>],
               [set |-> TRUE, text |-> <<"y", "o", "u", "r", "_", "k">>],
               [set |-> TRUE, text |-> <<"k">>]}
\* a prefix test that never matches
StartsWithNever(s, prefix) == FALSE

\* str.startswith
StartsWith(s, prefix) ==
    Len(s) >= Len(prefix) /\ SubSeq(s, 1, Len(prefix)) = prefix
\* not value or value.startswith('your_') (main.py:81)
InvalidValue(v) ==
    \/ ~v.set
    \/ v.text = <<>>
    \/ StartsWith(v.text, <<"y", "o", "u", "r", "_">>)
\* missing_vars (main.py:81)
missing_vars(e) == {n \in CredNames : InvalidValue(e[n])}

\* the acknowledgement of a submission: result.get('code'), result.get('data')
\* two processes started on the same metadata directory
Procs == {"P1", "P2"}
\* two WakeLock instances of one thread
LockNames == {"A", "B"}

\* the prompts create_lofi_prompt can return (suno.py:192-230)
Prompts == {"lofi_prompt"}
\* the value the text service returned under key k
MetaValue(k) == <<"openai", k>>
\* a URL built on another host
WatchUrlShort(id) == <<"https://youtu.be/", id>>
\* f"https://www.youtube.com/watch?v={video_id}" (youtube_upload.py:212)
WatchUrl(id) == <<"https://www.youtube.com/watch?v=", id>>
NoResult == [video_id |-> 0, video_url |-> <<>>]
NoRecord == [timestamp_id |-> 0]

Acks == [code : {"absent", "other", "success"}, data : {"absent", "empty", "id"}]
NoAck == [code |-> "none", data |-> "none"]

VARIABLES
    platform_system, \* platform.system() is "Windows"
    env,           \* the four required environment variables after load_dotenv
    argv,          \* the command line: "single", "loop" or "other"
    exit_code,     \* exit status of the process (-1 while it runs)
    clients,       \* the API clients have been constructed
    pc,            \* position of the thread
    runs,          \* calls of run_pipeline made so far
    i,             \* run_multiple: loop index
    successful,    \* run_multiple: successful
    failed,        \* run_multiple: failed
    delays,        \* number of inter-run time.sleep(delay_seconds) taken
    records,       \* run ids that have a metadata_<id>.json file
    writes,        \* how often each metadata_<id>.json was opened for writing
    audio_files,   \* run ids that have a lofi_<id>.mp3 file
    thumb_files,   \* run ids that have a thumb_<id>.png file
    video_files,   \* run ids that have a video_<id>.mp4 file
    is_locked,     \* WakeLock.is_locked of the run's lock instance
    acq_ok,        \* SetThreadExecutionState returned non-zero in acquire()
    es_awake,      \* the thread's execution state holds ES_SYSTEM_REQUIRED
    timestamp_id,  \* run_pipeline: timestamp_id (0 before the first run)
    steps,         \* steps of the current run invoked so far, in order
    err,           \* the exception in flight or last raised ("none")
    result,        \* how run_pipeline ended: "none", "ok", "skipped", "raised"
    metadata,      \* keys of the metadata dict of the run ({} before it exists)
    has_metadata,  \* generate_video_metadata has returned a dict in this run
    published,     \* videos this run has published on the upload service
    thumbs_set,    \* thumbnails this run has set on the upload service
    rt,            \* the retry wrapper of the wrapped call in progress
    submits,       \* jobs submitted by this run
    task_id,       \* generate_music: task_id (0: none)
    attempt,       \* generate_music: attempt
    jobFetches,    \* status fetches made for task_id
    jobSlept,      \* seconds slept in the poll loop of task_id
    ack,           \* generate_music: result, the acknowledgement (NoAck: none)
    lastAnswer,    \* what the last fetch of task_id answered ("none" before)
    nominal,       \* no answer of the generation service in this run was an
                   \* error, a bad acknowledgement, an unexpected response or
                   \* the failure status
    music_prompt,  \* run_pipeline: music_prompt ("none" before STEP 1)
    video_id,      \* upload_complete_video: video_id (0: none)
    upload_result, \* run_pipeline: upload_result (NoResult: none)
    complete_metadata, \* run_pipeline: complete_metadata (NoRecord: none)
    upload_progress, \* upload_video: what the last status of the chunk loop
                   \* reported, in steps of 1 / MaxProgress (0 outside the loop)
    locks,         \* WakeLock.is_locked of the instances A and B of one thread
    lock_log,      \* the calls made on A and B, each with what the OS call did
    procs,         \* two concurrent python main.py processes: position, run id
                   \* and steps done of each
    ki,            \* what became of a KeyboardInterrupt: "none" (none was
                   \* raised), "in_run", "between_runs" (it reached main's
                   \* handler from there) or "swallowed"
    results,       \* check_setup.main: results
    setup_pc,      \* check_setup.py: "checks", "exit" (sys.exit was called)
                   \* or "traceback" (a check raised)
    setup_exit,    \* exit status of check_setup.py (-1 while it runs)
    fetched_total, \* status fetches made by the run, over all its jobs
    last_fetched_id, \* the job id of the last status fetch of the run (0: none)
    result_data,   \* generate_and_download: result_data (NoPayload: none yet)
    audio_url,     \* generate_and_download: audio_url ("unset" before the search)
    gd_pc          \* generate_and_download: "generate", "search", "found",
                   \* "download" or "raised"

mainVars  == <<platform_system, env, argv, exit_code, clients>>
batchVars == <<runs, i, successful, failed, delays>>
storeVars == <<records, writes, audio_files, thumb_files, video_files>>
lockVars  == <<is_locked, acq_ok, es_awake>>
runVars   == <<timestamp_id, steps, result, metadata, has_metadata, published, thumbs_set>>
gmVars    == <<submits, task_id, attempt, jobFetches, jobSlept, ack, lastAnswer, nominal>>
recVars   == <<music_prompt, video_id, upload_result, complete_metadata, upload_progress>>
wlVars    == <<locks, lock_log>>
setupVars == <<results, setup_pc, setup_exit>>
auditVars == <<fetched_total, last_fetched_id>>
gdVars    == <<result_data, audio_url, gd_pc>>
auxVars   == <<wlVars, procs, ki, setupVars, auditVars, gdVars>>
vars == <<pc, mainVars, batchVars, storeVars, lockVars, runVars, gmVars, recVars, err, rt,
          auxVars>>

\* the wrapper state at the call of a wrapped function
NewRetry(call) ==
    [call |-> call, tries |-> Tries(call), delay |-> Delay(call),
     waits |-> <<>>, calls |-> 0]
NoRetry == [call |-> "none", tries |-> 0, delay |-> 0, waits |-> <<>>, calls |-> 0]

\* where a wrapped call starts
CallEntry(call) == IF call = "gm" THEN "gm_submit" ELSE call

\* the process starts at main(); the platform, the environment and the
\* command line are inputs
Init ==
    /\ pc = "main"
    /\ platform_system \in {"Windows", "Linux"}
    /\ env \in [CredNames -> CredValues]
    /\ argv \in {"single", "loop", "other"}
    /\ exit_code = -1 /\ clients = FALSE
    /\ runs = 0 /\ i = 0 /\ successful = 0 /\ failed = 0 /\ delays = 0
    /\ records = {} /\ writes = [t \in RunIds |-> 0]
    /\ audio_files = {} /\ thumb_files = {} /\ video_files = {}
    /\ is_locked = FALSE /\ acq_ok = FALSE /\ es_awake = FALSE
    /\ timestamp_id = 0 /\ steps = <<>> /\ err = "none" /\ result = "none"
    /\ metadata = {} /\ has_metadata = FALSE /\ published = 0 /\ thumbs_set = 0
    /\ rt = NoRetry
    /\ submits = 0 /\ task_id = 0 /\ attempt = 0 /\ jobFetches = 0 /\ jobSlept = 0
    /\ ack = NoAck /\ lastAnswer = "none" /\ nominal = TRUE
    /\ music_prompt = "none" /\ video_id = 0 /\ upload_progress = 0
    /\ upload_result = NoResult /\ complete_metadata = NoRecord
    /\ locks = [l \in LockNames |-> FALSE] /\ lock_log = <<>>
    /\ procs = [p \in Procs |-> [pc |-> "start", id |-> 0, step |-> 0]]
    /\ ki = "none"
    /\ results = <<>> /\ setup_pc = "checks" /\ setup_exit = -1
    /\ fetched_total = 0 /\ last_fetched_id = 0
    /\ result_data = NoPayload /\ audio_url = "unset" /\ gd_pc = "generate"

\* -------------------------------------------------------------------- main

\* if platform.system() != "Windows": sys.exit(1) (main.py:285-290)
PlatformCheck ==
    /\ pc = "main"
    /\ IF platform_system # "Windows"
          THEN exit_code' = 1 /\ pc' = "exit"
          ELSE exit_code' = exit_code /\ pc' = "construct"
    /\ UNCHANGED <<auxVars, recVars, platform_system, env, argv, clients, batchVars, storeVars, lockVars,
                   runVars, gmVars, err, rt>>

\* automation = LoFiAutomation() (main.py:301, 37-70): the credentials are
\* validated and sys.exit(1) leaves the process when one is missing; else the
\* clients are constructed, and YouTubeUploader authenticates, which can raise
\* into except Exception: sys.exit(1) (main.py:321-323)
Construct ==
    /\ pc = "construct"
    /\ IF missing_vars(env) # {}
          THEN clients' = clients /\ exit_code' = 1 /\ pc' = "exit"
          ELSE /\ clients' = TRUE
               /\ \E auth \in {"ok", "raise"} :
                     IF auth = "ok"
                        THEN exit_code' = exit_code /\ pc' = "dispatch"
                        ELSE exit_code' = 1 /\ pc' = "exit"
    /\ UNCHANGED <<auxVars, recVars, platform_system, env, argv, batchVars, storeVars, lockVars,
                   runVars, gmVars, err, rt>>

\* the dispatch on sys.argv (main.py:304-316)
Dispatch ==
    /\ pc = "dispatch"
    /\ pc' = CASE argv = "loop"   -> "loop"
              [] argv = "single" -> "single"
              [] OTHER           -> "main_end"
    /\ UNCHANGED <<auxVars, recVars, mainVars, batchVars, storeVars, lockVars, runVars, gmVars, err, rt>>

\* single mode: run_pipeline() returned, or raised into except Exception:
\* sys.exit(1) (main.py:316, 321-323)
SingleReturned ==
    /\ pc = "returned" /\ argv = "single"
    /\ IF result = "raised"
          THEN exit_code' = 1 /\ pc' = "exit"
          ELSE exit_code' = exit_code /\ pc' = "main_end"
    /\ UNCHANGED <<auxVars, recVars, platform_system, env, argv, clients, batchVars, storeVars, lockVars,
                   runVars, gmVars, err, rt>>

\* main() returns: the interpreter exits with status 0
MainReturns ==
    /\ pc = "main_end"
    /\ exit_code' = 0
    /\ pc' = "exit"
    /\ UNCHANGED <<auxVars, recVars, platform_system, env, argv, clients, batchVars, storeVars, lockVars,
                   runVars, gmVars, err, rt>>


\* ------------------------------------------------------------ run_multiple

\* a duplicate check that finds nothing
check_duplicate_never(t) == FALSE
\* a duplicate check that also sees the runs in progress in another process
check_duplicate_in_flight(t) ==
    t \in records \/ \E q \in Procs : procs[q].pc = "steps" /\ procs[q].id = t
\* a duplicate check that finds any record
check_duplicate_any(t) == records # {}

\* check_duplicate: metadata_<timestamp_id>.json exists (main.py:92-95)
check_duplicate(t) == t \in records

\* a call that goes on with the locals of the call before it
ResumedRun ==
    /\ UNCHANGED <<steps, err, metadata, has_metadata, published, thumbs_set, rt>>
    /\ UNCHANGED <<gmVars, recVars>>

\* the frame of a new run_pipeline call: no local of the call before it
\* survives (main.py:141-166)
FreshRun ==
    /\ steps' = <<>> /\ err' = "none"
    /\ metadata' = {} /\ has_metadata' = FALSE /\ published' = 0 /\ thumbs_set' = 0
    /\ rt' = NoRetry
    /\ submits' = 0 /\ task_id' = 0 /\ attempt' = 0 /\ jobFetches' = 0
    /\ jobSlept' = 0 /\ ack' = NoAck /\ lastAnswer' = "none" /\ nominal' = TRUE
    /\ music_prompt' = "none" /\ video_id' = 0 /\ upload_progress' = 0
    /\ upload_result' = NoResult /\ complete_metadata' = NoRecord

\* for i in range(count): run_pipeline() is called (or main calls it once);
\* it takes the timestamp and checks for a duplicate (main.py:152-157).  The
\* local wall clock is an input.
StartRun ==
    /\ \/ pc = "loop" /\ i < Count
       \/ pc = "single"
    /\ runs' = runs + 1
    /\ \E t \in RunIds :
          /\ timestamp_id' = t
          /\ IF check_duplicate(t)
                THEN /\ pc' = "returned"
                     /\ result' = "skipped"
                ELSE /\ pc' = "acquire"
                     /\ result' = "none"
    /\ FreshRun
    /\ is_locked' = FALSE /\ acq_ok' = FALSE /\ es_awake' = es_awake
    /\ UNCHANGED <<auxVars, mainVars, i, successful, failed, delays, storeVars>>

\* the for loop is over: the report is logged (main.py:275-279)
EndBatch ==
    /\ pc = "loop" /\ i >= Count
    /\ pc' = "main_end"
    /\ UNCHANGED <<auxVars, recVars, mainVars, batchVars, storeVars, lockVars, runVars, gmVars, err, rt>>

\* run_pipeline returned normally (a record or None): successful += 1 and the
\* inter-run delay unless this was the last run (main.py:261-269)
ReturnedOk ==
    /\ pc = "returned" /\ argv = "loop" /\ result \in {"ok", "skipped"}
    /\ successful' = successful + 1
    /\ IF i < Count - 1
          THEN pc' = "delay" /\ i' = i
          ELSE pc' = "loop" /\ i' = i + 1
    /\ UNCHANGED <<auxVars, recVars, mainVars, runs, failed, delays, storeVars, lockVars, runVars, gmVars, err, rt>>

\* time.sleep(delay_seconds) (main.py:269)
InterRunDelay ==
    /\ pc = "delay"
    /\ delays' = delays + 1
    /\ i' = i + 1
    /\ pc' = "loop"
    /\ UNCHANGED <<auxVars, recVars, mainVars, runs, successful, failed, storeVars, lockVars, runVars, gmVars, err, rt>>

\* a loop that ends at the first failure
IndexAfterFailureBreaks(k) == Count

\* the for loop goes on with the next index after the except clause
IndexAfterFailure(k) == k + 1

\* run_pipeline raised: except Exception: failed += 1 (main.py:271-273)
ReturnedRaised ==
    /\ pc = "returned" /\ argv = "loop" /\ result = "raised"
    /\ failed' = failed + 1
    /\ i' = IndexAfterFailure(i)
    /\ pc' = "loop"
    /\ UNCHANGED <<auxVars, recVars, mainVars, runs, successful, delays, storeVars, lockVars, runVars, gmVars, err, rt>>

\* ---------------------------------------------------------------- WakeLock

\* a faulty acquire that never marks the lock held
AcquireNeverLocks(r) == FALSE
\* a faulty acquire that marks the lock held whenever the OS call returned
AcquireMarksAnyReturn(r) == r # "raise"

\* WakeLock.acquire on the fresh instance (wake_lock.py:33-59): the lock is
\* marked held only when SetThreadExecutionState returns non-zero.
AcquireMarksLocked(r) == r = "nonzero"

Acquire ==
    /\ pc = "acquire"
    /\ \E r \in {"nonzero", "zero", "raise"} :
          /\ is_locked' = AcquireMarksLocked(r)
          /\ acq_ok' = (r = "nonzero")
          /\ es_awake' = IF r = "nonzero" THEN TRUE ELSE es_awake
    /\ pc' = "prompt"
    /\ UNCHANGED <<auxVars, recVars, mainVars, batchVars, storeVars, runVars, gmVars, err, rt>>

\* a release that leaves the flag as it is
MarkedAfterReleaseKept(l) == l

\* is_locked after release(): False whatever the OS call did; a lock that is
\* not held is left alone (wake_lock.py:69-86)
MarkedAfterRelease(l) == FALSE

\* finally: wake_lock.release() (main.py:236-238, wake_lock.py:61-86): the OS
\* call is made only for a lock that is marked held, and clears the
\* requirement only when it succeeds
Release ==
    /\ pc = "finally"
    /\ is_locked' = MarkedAfterRelease(is_locked)
    /\ IF is_locked
          THEN \E r \in {"nonzero", "zero", "raise"} :
                  es_awake' = IF r = "nonzero" THEN FALSE ELSE es_awake
          ELSE es_awake' = es_awake
    /\ acq_ok' = acq_ok
    /\ pc' = "returned"
    /\ UNCHANGED <<auxVars, recVars, mainVars, batchVars, storeVars, runVars, gmVars, err, rt>>

\* ------------------------------------------------------- the retry wrapper

\* a faulty wrapper that allows one try more
GivesUpLate(r) == r.tries - 1 < 0

\* the wrapper gives up when the decremented number of tries is zero
GivesUp(r) == r.tries - 1 = 0
\* _delay *= backoff
NextDelay(r) == r.delay * Backoff(r.call)

\* a wrapped call raised: _tries -= 1; re-raise when none is left, else
\* time.sleep(_delay), _delay *= backoff and call again.  The frame of the
\* call that raised is gone, and with it the locals of generate_music.
RetryExcept ==
    /\ pc = "retry_except"
    /\ IF GivesUp(rt)
          THEN /\ rt' = [rt EXCEPT !.tries = rt.tries - 1]
               /\ pc' = "except"
               /\ err' = err
          ELSE /\ rt' = [rt EXCEPT !.tries = rt.tries - 1,
                                   !.waits = Append(rt.waits, rt.delay),
                                   !.delay = NextDelay(rt)]
               /\ pc' = CallEntry(rt.call)
               /\ err' = "none"
    /\ task_id' = 0 /\ attempt' = 0 /\ jobFetches' = 0 /\ jobSlept' = 0
    /\ ack' = NoAck /\ lastAnswer' = "none"
    /\ UNCHANGED <<auxVars, recVars, mainVars, batchVars, storeVars, lockVars, runVars, submits, nominal>>

\* except Exception: log and re-raise (main.py:233-235)
Except ==
    /\ pc = "except"
    /\ result' = "raised"
    /\ pc' = "finally"
    /\ UNCHANGED <<auxVars, recVars, mainVars, batchVars, storeVars, lockVars, timestamp_id, steps, metadata,
                   has_metadata, published, thumbs_set, gmVars, err, rt>>


\* ------------------------------------------------------------ run_pipeline

\* STEP 1 (main.py:168-174) and the call of generate_and_download, which calls
\* the wrapped generate_music (main.py:179, suno.py:164)
Prompt ==
    /\ pc = "prompt"
    /\ \E p \in Prompts : music_prompt' = p
    /\ steps' = <<"prompt", "audio">>
    /\ rt' = NewRetry("gm")
    /\ pc' = "gm_submit"
    /\ UNCHANGED <<auxVars, video_id, upload_result, complete_metadata, upload_progress, mainVars, batchVars, storeVars, lockVars, timestamp_id, result, metadata,
                   has_metadata, published, thumbs_set, gmVars, err>>

\* ---------------------------------------------- SunoAPI.generate_music body

\* a check of the acknowledgement that looks at the code only
AckOkCodeOnly(a) == a.code = "success"

\* the acknowledgement is good: not (code != 'success' or not data)
\* (suno.py:78)
AckOk(a) == ~(a.code # "success" \/ a.data \in {"absent", "empty"})

\* requests.post, raise_for_status, the check of the acknowledgement
\* (suno.py:56-87): the request fails, or an acknowledgement is parsed
Submit ==
    /\ pc = "gm_submit"
    /\ rt' = [rt EXCEPT !.calls = rt.calls + 1]
    /\ \/ /\ nominal' = FALSE
          /\ err' = "http" /\ pc' = "retry_except"
          /\ UNCHANGED <<submits, task_id, attempt, jobFetches, jobSlept, ack>>
       \/ \E a \in Acks :
             /\ ack' = a
             /\ nominal' = (nominal /\ AckOk(a))
             /\ IF ~AckOk(a)
                   THEN /\ err' = "submission" /\ pc' = "retry_except"
                        /\ UNCHANGED <<submits, task_id, attempt, jobFetches, jobSlept>>
                   ELSE /\ submits' = submits + 1
                        /\ task_id' = IF a.data = "id" THEN submits + 1 ELSE 0
                        /\ attempt' = 0 /\ jobFetches' = 0 /\ jobSlept' = 0
                        /\ err' = err
                        /\ pc' = "gm_poll"
    /\ UNCHANGED <<auxVars, recVars, mainVars, batchVars, storeVars, lockVars, runVars, lastAnswer>>

\* a poll loop that runs once too often
PollContinuesOffByOne(a) == a <= max_attempts

\* while attempt < max_attempts (suno.py:89)
PollContinues(a) == a < max_attempts

\* attempt += 1; time.sleep(5) (suno.py:90-91)
PollSleep ==
    /\ pc = "gm_poll" /\ PollContinues(attempt)
    /\ attempt' = attempt + 1
    /\ jobSlept' = jobSlept + PollInterval
    /\ pc' = "gm_fetch"
    /\ UNCHANGED <<auxVars, recVars, mainVars, batchVars, storeVars, lockVars, runVars, submits, task_id, jobFetches,
                   ack, lastAnswer, nominal, err, rt>>

\* the loop ends without a terminal status: raise TimeoutError (suno.py:116)
PollTimeout ==
    /\ pc = "gm_poll" /\ ~PollContinues(attempt)
    /\ err' = "timeout"
    /\ pc' = "retry_except"
    /\ UNCHANGED <<auxVars, recVars, mainVars, batchVars, storeVars, lockVars, runVars, gmVars, rt>>

\* what a fetch can answer: a transport or HTTP error, a response without a
\* good code or without data, or a status
FetchAnswers == {"http_error", "unexpected", "complete", "error", "in_progress"}
\* a status test that never recognises completion
IsCompleteNever(r) == FALSE
\* a status test that never recognises the failure status
IsFailureNever(r) == FALSE
\* a status test that takes every status but complete for a failure
IsFailureAnyOther(r) == r # "complete"

\* status == 'complete' (suno.py:106)
IsComplete(r) == r = "complete"
\* status == 'error' (suno.py:109)
IsFailure(r) == r = "error"

\* requests.get of the job, raise_for_status and the status test (suno.py:93-114)
FetchJob ==
    /\ pc = "gm_fetch"
    /\ jobFetches' = jobFetches + 1
    /\ \E r \in FetchAnswers :
          /\ lastAnswer' = r
          /\ nominal' = (nominal /\ r \in {"in_progress", "complete"})
          /\ IF r = "http_error"
                THEN err' = "http" /\ pc' = "retry_except"
                ELSE IF r = "unexpected"
                THEN err' = err /\ pc' = "gm_poll"
                ELSE IF IsComplete(r)
                THEN err' = err /\ pc' = "extract"
                ELSE IF IsFailure(r)
                THEN err' = "generation" /\ pc' = "retry_except"
                ELSE err' = err /\ pc' = "gm_poll"
    /\ UNCHANGED <<recVars, mainVars,
                   batchVars, storeVars, lockVars, runVars, submits, task_id, attempt,
                   jobSlept, ack, rt>>

Fetch == FetchJob /\ UNCHANGED auxVars

\* the same fetch, with the run's fetches counted and the fetched job id
\* (the task_id in the request URL, suno.py:93-94) noted
CountedFetch ==
    /\ FetchJob
    /\ fetched_total' = fetched_total + 1
    /\ last_fetched_id' = task_id
    /\ UNCHANGED <<wlVars, procs, ki, setupVars, gdVars>>

\* ------------------------------------------- SunoAPI.generate_and_download

\* a search that takes any payload to hold a URL
FindAudioUrlAlways(p) == "url"

\* the audio URL found in the payload, "none" when there is none
\* (suno.py:168-180)
FindAudioUrl(p) ==
    IF p.clips \notin {"absent", "empty"}
       THEN (IF p.clips = "url" THEN "url" ELSE "none")
    ELSE IF p.audio_url # "absent"
       THEN (IF p.audio_url = "url" THEN "url" ELSE "none")
    ELSE IF p.data \notin {"absent", "empty"}
       THEN (IF p.data = "url" THEN "url" ELSE "none")
    ELSE "none"

\* result_data is the payload of the completed job; if not audio_url: raise
\* ValueError; else call the wrapped download_audio (suno.py:164-189)
Extract ==
    /\ pc = "extract"
    /\ \E url \in {FindAudioUrl(p) : p \in Payloads} :
          IF url = "none"
             THEN /\ err' = "malformed"
                  /\ pc' = "except"
                  /\ rt' = rt
             ELSE /\ err' = err
                  /\ pc' = "dl"
                  /\ rt' = NewRetry("dl")
    \* the locals of generate_music are dead from here on
    /\ task_id' = 0 /\ attempt' = 0 /\ jobFetches' = 0 /\ jobSlept' = 0
    /\ ack' = NoAck /\ lastAnswer' = "none"
    /\ UNCHANGED <<auxVars, recVars, mainVars, batchVars, storeVars, lockVars, runVars, submits, nominal>>

\* faulty sequencings: the record is written without an upload; the upload
\* is called without a mux; the mux is called without a thumbnail
PcAfterSkipUpload(call) ==
    CASE call = "dl"       -> "meta"
      [] call = "meta"     -> "thumb"
      [] call = "thumb"    -> "mux"
      [] call = "mux"      -> "persist"
      [] call = "up_video" -> "up_thumb"
      [] call = "up_thumb" -> "persist"
PcAfterSkipMux(call) ==
    CASE call = "dl"       -> "meta"
      [] call = "meta"     -> "thumb"
      [] call = "thumb"    -> "up_args"
      [] call = "mux"      -> "up_args"
      [] call = "up_video" -> "up_thumb"
      [] call = "up_thumb" -> "persist"
PcAfterSkipThumb(call) ==
    CASE call = "dl"       -> "meta"
      [] call = "meta"     -> "mux"
      [] call = "thumb"    -> "mux"
      [] call = "mux"      -> "up_args"
      [] call = "up_video" -> "up_thumb"
      [] call = "up_thumb" -> "persist"

\* the position and step that follow the return of a wrapped call or of the
\* mux (main.py:179-203, openai_gen.py:166-174, youtube_upload.py:200-210)
PcAfter(call) ==
    CASE call = "dl"       -> "meta"
      [] call = "meta"     -> "thumb"
      [] call = "thumb"    -> "mux"
      [] call = "mux"      -> "up_args"
      [] call = "up_video" -> "up_thumb"
      [] call = "up_thumb" -> "persist"

\* the step of run_pipeline a position belongs to
StepOf(p) ==
    CASE p \in {"meta", "thumb"}                   -> "assets"
      [] p = "mux"                                 -> "mux"
      [] p \in {"up_args", "up_video", "up_thumb"} -> "upload"
      [] p = "persist"                             -> "persist"
      [] OTHER                                     -> "audio"

\* the steps invoked once the thread moves on to position p
StepsAt(p) == IF steps # <<>> /\ steps[Len(steps)] = StepOf(p)
                 THEN steps ELSE Append(steps, StepOf(p))

\* the wrapper of the wrapped call at position p, if p is one
RetryAt(p) == IF p \in RetriedCalls THEN NewRetry(p) ELSE rt

\* one try of download_audio (suno.py:136-149): the request fails, or the
\* file is opened and the stream fails, or the file is written
Download ==
    /\ pc = "dl"
    /\ \E r \in {"http_error", "stream_error", "ok"} :
          /\ audio_files' = IF r = "http_error" THEN audio_files
                            ELSE audio_files \cup {timestamp_id}
          /\ IF r = "ok"
                THEN /\ pc' = PcAfter("dl")
                     /\ steps' = StepsAt(PcAfter("dl"))
                     /\ rt' = RetryAt(PcAfter("dl"))
                     /\ err' = err
                ELSE /\ pc' = "retry_except"
                     /\ steps' = steps
                     /\ rt' = [rt EXCEPT !.calls = rt.calls + 1]
                     /\ err' = "http"
    /\ UNCHANGED <<auxVars, recVars, mainVars, batchVars, records, writes, thumb_files, video_files, lockVars, timestamp_id,
                   result, metadata, has_metadata, published, thumbs_set, gmVars>>


\* -------------------------------------- OpenAIGenerator.generate_complete_assets

\* one try of generate_video_metadata (openai_gen.py:46-80): the request or
\* the JSON parse fails, or a dict with some keys is returned
Meta ==
    /\ pc = "meta"
    /\ \/ /\ pc' = "retry_except"
          /\ rt' = [rt EXCEPT !.calls = rt.calls + 1]
          /\ err' = "openai"
          /\ UNCHANGED <<steps, metadata, has_metadata>>
       \/ /\ \E m \in MetaKeySets : metadata' = m
          /\ has_metadata' = TRUE
          /\ pc' = PcAfter("meta")
          /\ steps' = StepsAt(PcAfter("meta"))
          /\ rt' = RetryAt(PcAfter("meta"))
          /\ err' = err
    /\ UNCHANGED <<auxVars, recVars, mainVars, batchVars, storeVars, lockVars, timestamp_id, result, published,
                   thumbs_set, gmVars>>

\* one try of generate_thumbnail (openai_gen.py:97-129); thumbnail_prompt is
\* read with a default (openai_gen.py:169)
Thumb ==
    /\ pc = "thumb"
    /\ \/ /\ pc' = "retry_except"
          /\ rt' = [rt EXCEPT !.calls = rt.calls + 1]
          /\ err' = "openai"
          /\ UNCHANGED <<steps, thumb_files>>
       \/ /\ thumb_files' = thumb_files \cup {timestamp_id}
          /\ pc' = PcAfter("thumb")
          /\ steps' = StepsAt(PcAfter("thumb"))
          /\ rt' = RetryAt(PcAfter("thumb"))
          /\ err' = err
    /\ UNCHANGED <<auxVars, recVars, mainVars, batchVars, records, writes, audio_files, video_files, lockVars, timestamp_id,
                   result, metadata, has_metadata, published, thumbs_set, gmVars>>

\* create_video_from_audio (main.py:97-139): ffmpeg fails and the error is
\* raised, or the video file is written
Mux ==
    /\ pc = "mux"
    /\ \/ /\ pc' = "except"
          /\ err' = "mux"
          /\ UNCHANGED <<steps, video_files>>
       \/ /\ video_files' = video_files \cup {timestamp_id}
          /\ pc' = PcAfter("mux")
          /\ steps' = StepsAt(PcAfter("mux"))
          /\ err' = err
    /\ UNCHANGED <<auxVars, recVars, mainVars, batchVars, records, writes, audio_files, thumb_files, lockVars, timestamp_id,
                   result, metadata, has_metadata, published, thumbs_set, gmVars, rt>>

\* ------------------------------------- YouTubeUploader.upload_complete_video

\* the arguments of upload_video are read from the metadata
\* (youtube_upload.py:200-207): a missing key raises KeyError
UploadArgs ==
    /\ pc = "up_args"
    /\ IF UploadKeys \subseteq metadata
          THEN /\ pc' = "up_video"
               /\ rt' = NewRetry("up_video")
               /\ err' = err
          ELSE /\ pc' = "except"
               /\ rt' = rt
               /\ err' = "key"
    /\ UNCHANGED <<auxVars, recVars, mainVars, batchVars, storeVars, lockVars, runVars, gmVars>>

\* one step of a try of upload_video (youtube_upload.py:120-152): the insert
\* fails before the service has stored the video, or next_chunk raises
\* although the service has stored it (the response is lost), or next_chunk
\* returns a status and no response, and the while loop calls it again
\* (youtube_upload.py:134-139), or the video is published and its id returned
UploadVideo ==
    /\ pc = "up_video"
    /\ \/ /\ pc' = "retry_except"
          /\ rt' = [rt EXCEPT !.calls = rt.calls + 1]
          /\ err' = "upload"
          /\ \E stored \in BOOLEAN :
                published' = IF stored THEN published + 1 ELSE published
          /\ upload_progress' = 0
          /\ UNCHANGED <<steps, video_id>>
       \/ /\ \E reported \in 0..MaxProgress : upload_progress' = reported
          /\ UNCHANGED <<pc, rt, err, published, steps, video_id>>
       \/ /\ published' = published + 1
          /\ video_id' = published + 1
          /\ upload_progress' = 0
          /\ pc' = PcAfter("up_video")
          /\ steps' = StepsAt(PcAfter("up_video"))
          /\ rt' = RetryAt(PcAfter("up_video"))
          /\ err' = err
    /\ UNCHANGED <<auxVars, music_prompt, upload_result, complete_metadata, mainVars,
                   batchVars, storeVars, lockVars, timestamp_id, result, metadata,
                   has_metadata, thumbs_set, gmVars>>

\* one try of set_thumbnail (youtube_upload.py:165-178)
SetThumbnail ==
    /\ pc = "up_thumb"
    /\ \/ /\ pc' = "retry_except"
          /\ rt' = [rt EXCEPT !.calls = rt.calls + 1]
          /\ err' = "upload"
          /\ UNCHANGED <<steps, thumbs_set, upload_result>>
       \/ /\ thumbs_set' = thumbs_set + 1
          /\ upload_result' = [video_id |-> video_id, video_url |-> WatchUrl(video_id)]
          /\ pc' = PcAfter("up_thumb")
          /\ steps' = StepsAt(PcAfter("up_thumb"))
          /\ rt' = RetryAt(PcAfter("up_thumb"))
          /\ err' = err
    /\ UNCHANGED <<auxVars, music_prompt, video_id, complete_metadata, upload_progress, mainVars,
                   batchVars, storeVars, lockVars, timestamp_id, result, metadata,
                   has_metadata, published, gmVars>>

\* complete_metadata (main.py:204-218); upload_timestamp, a clock reading,
\* is left out
BuildRecord ==
    [timestamp_id     |-> timestamp_id,
     music_prompt     |-> music_prompt,
     audio_path       |-> <<"lofi_", timestamp_id>>,
     video_path       |-> <<"video_", timestamp_id>>,
     thumbnail_path   |-> <<"thumb_", timestamp_id>>,
     title            |-> MetaValue("title"),
     description      |-> MetaValue("description"),
     tags             |-> MetaValue("tags"),
     thumbnail_prompt |-> MetaValue("thumbnail_prompt"),
     video_id         |-> upload_result.video_id,
     video_url        |-> upload_result.video_url,
     privacy_status   |-> "private"]

\* STEP 6 (main.py:203-231): the record is built from the metadata and the
\* upload result (a missing key raises KeyError), written to
\* metadata_<timestamp_id>.json and returned
Persist ==
    /\ pc = "persist"
    /\ IF RecordKeys \subseteq metadata
          THEN /\ records' = records \cup {timestamp_id}
               /\ writes' = [writes EXCEPT ![timestamp_id] = @ + 1]
               /\ complete_metadata' = BuildRecord
               /\ result' = "ok"
               /\ pc' = "finally"
               /\ err' = err
          ELSE /\ records' = records
               /\ writes' = writes
               /\ result' = result
               /\ complete_metadata' = complete_metadata
               /\ pc' = "except"
               /\ err' = "key"
    /\ UNCHANGED <<auxVars, music_prompt, video_id, upload_result, upload_progress, mainVars, batchVars, audio_files, thumb_files, video_files, lockVars,
                   timestamp_id, steps, metadata, has_metadata, published, thumbs_set,
                   gmVars, rt>>

Next ==
    \/ PlatformCheck \/ Construct \/ Dispatch \/ SingleReturned \/ MainReturns
    \/ StartRun \/ EndBatch \/ ReturnedOk \/ InterRunDelay \/ ReturnedRaised
    \/ Acquire \/ Release \/ RetryExcept \/ Except
    \/ Prompt \/ Submit \/ PollSleep \/ PollTimeout \/ Fetch \/ Extract \/ Download
    \/ Meta \/ Thumb \/ Mux \/ UploadArgs \/ UploadVideo \/ SetThumbnail \/ Persist

Spec == Init /\ [][Next]_vars

\* ------------------------------------------- two WakeLock instances, one thread

\* the variables of the program but the thread's execution state
progButAwake ==
    <<pc, mainVars, batchVars, storeVars, is_locked, acq_ok, runVars, gmVars, recVars,
      err, rt>>

\* a credential that passes the validation
ValidCred == [set |-> TRUE, text |-> <<"k">>]

\* a thread that holds the instances A and B and calls acquire() and
\* release() on them in any order
LockInit ==
    /\ Init
    /\ env = [n \in CredNames |-> ValidCred] /\ argv = "single"

\* what SetThreadExecutionState can do: return non-zero, return 0, or raise
OsOutcomes == {"nonzero", "zero", "raise"}

\* the calls made on instance l so far, and those that reached the OS
CallsOn(l) == SelectSeq(lock_log, LAMBDA c : c.lock = l)
OsCalls == SelectSeq(lock_log, LAMBDA c : c.os # "none")

\* l.acquire() (wake_lock.py:33-59)
LockAcquire(l) ==
    /\ Len(lock_log) < MaxLockOps
    /\ IF platform_system # "Windows" \/ locks[l]
          THEN /\ UNCHANGED <<locks, es_awake>>
               /\ lock_log' = Append(lock_log, [lock |-> l, call |-> "acquire", os |-> "none"])
          ELSE \E r \in OsOutcomes :
                  /\ locks' = [locks EXCEPT ![l] = AcquireMarksLocked(r)]
                  /\ es_awake' = IF r = "nonzero" THEN TRUE ELSE es_awake
                  /\ lock_log' = Append(lock_log, [lock |-> l, call |-> "acquire", os |-> r])
    /\ UNCHANGED <<progButAwake, procs, ki, setupVars, auditVars, gdVars>>

\* l.release() (wake_lock.py:61-86): SetThreadExecutionState(ES_CONTINUOUS)
\* clears the requirement of the thread, whichever instance set it
LockRelease(l) ==
    /\ Len(lock_log) < MaxLockOps
    /\ IF platform_system # "Windows" \/ ~locks[l]
          THEN /\ UNCHANGED <<locks, es_awake>>
               /\ lock_log' = Append(lock_log, [lock |-> l, call |-> "release", os |-> "none"])
          ELSE \E r \in OsOutcomes :
                  /\ locks' = [locks EXCEPT ![l] = MarkedAfterRelease(locks[l])]
                  /\ es_awake' = IF r = "nonzero" THEN FALSE ELSE es_awake
                  /\ lock_log' = Append(lock_log, [lock |-> l, call |-> "release", os |-> r])
    /\ UNCHANGED <<progButAwake, procs, ki, setupVars, auditVars, gdVars>>

LockNext == \E l \in LockNames : LockAcquire(l) \/ LockRelease(l)

SpecLock == LockInit /\ [][LockNext]_vars


\* ----------------------------------------- two processes, one metadata directory

\* the variables of the program but the record files
progButRecords ==
    <<pc, mainVars, batchVars, audio_files, thumb_files, video_files, lockVars, runVars,
      gmVars, recVars, err, rt>>

\* two invocations of python main.py (single mode) that share the working
\* directory
RaceInit ==
    /\ Init
    /\ platform_system = "Windows"
    /\ env = [n \in CredNames |-> ValidCred] /\ argv = "single"

\* run_pipeline of process p reads the clock and checks for a duplicate
\* (main.py:152-157)
RaceStart(p) ==
    /\ procs[p].pc = "start"
    /\ \E t \in RunIds :
          procs' = [procs EXCEPT ![p] =
                       [pc |-> IF check_duplicate(t) THEN "skipped" ELSE "steps",
                        id |-> t, step |-> 0]]
    /\ UNCHANGED <<progButRecords, records, writes, wlVars, ki, setupVars, auditVars, gdVars>>

\* one of the steps before the record is written (main.py:168-200) returns
\* or raises
RaceStep(p) ==
    /\ procs[p].pc = "steps" /\ procs[p].step < Len(StepOrder) - 1
    /\ \/ procs' = [procs EXCEPT ![p].step = @ + 1]
       \/ procs' = [procs EXCEPT ![p].pc = "failed"]
    /\ UNCHANGED <<progButRecords, records, writes, wlVars, ki, setupVars, auditVars, gdVars>>

\* STEP 6 of process p: open(metadata_path, 'w') and json.dump
\* (main.py:220-222)
RacePersist(p) ==
    /\ procs[p].pc = "steps" /\ procs[p].step = Len(StepOrder) - 1
    /\ records' = records \cup {procs[p].id}
    /\ writes' = [writes EXCEPT ![procs[p].id] = @ + 1]
    /\ procs' = [procs EXCEPT ![p].pc = "done", ![p].step = @ + 1]
    /\ UNCHANGED <<progButRecords, wlVars, ki, setupVars, auditVars, gdVars>>

RaceNext == \E p \in Procs : RaceStart(p) \/ RaceStep(p) \/ RacePersist(p)

SpecRace == RaceInit /\ [][RaceNext]_vars

\* --------------------------------------------------- KeyboardInterrupt

\* the positions inside the try block of run_pipeline (main.py:167-235)
InTryPcs ==
    {"prompt", "gm_submit", "gm_poll", "gm_fetch", "retry_except", "extract", "dl",
     "meta", "thumb", "mux", "up_args", "up_video", "up_thumb", "persist", "except"}

\* the user presses Ctrl-C in a process that has valid credentials
InterruptInit ==
    /\ Init
    /\ platform_system = "Windows"
    /\ env = [n \in CredNames |-> ValidCred] /\ argv \in {"single", "loop"}

\* the finally block of run_pipeline runs while the KeyboardInterrupt
\* propagates (main.py:236-238); the release itself can be cut short
UnwindRelease ==
    IF is_locked
       THEN \E r \in OsOutcomes \cup {"interrupted"} :
               /\ is_locked' = IF r = "interrupted" THEN is_locked
                               ELSE MarkedAfterRelease(is_locked)
               /\ es_awake' = IF r = "nonzero" THEN FALSE ELSE es_awake
       ELSE UNCHANGED <<is_locked, es_awake>>

\* except KeyboardInterrupt: sys.exit(0) (main.py:318-320)
ExitInterrupted(where) ==
    /\ ki' = where
    /\ pc' = "exit"
    /\ exit_code' = 0

\* a KeyboardInterrupt is raised in the main thread, once.  No handler of the
\* pipeline catches it (the retry wrapper and run_pipeline catch Exception)
\* but the bare except around response.json() of a submission that was not
\* answered with 200 (suno.py:67-74): there the run goes on with the HTTP
\* error.  Raised while the record file is being written, it leaves the file
\* created.
Interrupt ==
    /\ ki = "none"
    /\ \/ /\ pc \in {"loop", "single", "returned", "delay"}
          /\ ExitInterrupted("between_runs")
          /\ UNCHANGED <<platform_system, env, argv, clients, batchVars, storeVars,
                         lockVars, runVars, gmVars, recVars, err, rt, wlVars, procs, setupVars, auditVars, gdVars>>
       \/ /\ pc = "acquire"
          /\ ExitInterrupted("in_run")
          /\ UNCHANGED <<platform_system, env, argv, clients, batchVars, storeVars,
                         lockVars, runVars, gmVars, recVars, err, rt, wlVars, procs, setupVars, auditVars, gdVars>>
       \/ /\ pc \in InTryPcs \cup {"finally"}
          /\ ExitInterrupted("in_run")
          /\ UnwindRelease
          /\ IF pc = "persist" /\ RecordKeys \subseteq metadata
                THEN \E opened \in BOOLEAN :
                        /\ records' = IF opened THEN records \cup {timestamp_id}
                                      ELSE records
                        /\ writes' = IF opened
                                        THEN [writes EXCEPT ![timestamp_id] = @ + 1]
                                        ELSE writes
                ELSE UNCHANGED <<records, writes>>
          /\ UNCHANGED <<platform_system, env, argv, clients, batchVars, audio_files,
                         thumb_files, video_files, acq_ok, runVars, gmVars, recVars,
                         err, rt, wlVars, procs, setupVars, auditVars, gdVars>>
       \/ /\ pc = "gm_submit"
          /\ ki' = "swallowed"
          /\ rt' = [rt EXCEPT !.calls = rt.calls + 1]
          /\ nominal' = FALSE
          /\ err' = "http" /\ pc' = "retry_except"
          /\ UNCHANGED <<mainVars, batchVars, storeVars, lockVars, runVars, recVars,
                         submits, task_id, attempt, jobFetches, jobSlept, ack,
                         lastAnswer, wlVars, procs, setupVars, auditVars, gdVars>>

InterruptNext == Next \/ Interrupt

SpecInterrupt == InterruptInit /\ [][InterruptNext]_vars

\* ------------------------------------------------------------ check_setup.py

\* the variables of main.py
progVars ==
    <<pc, mainVars, batchVars, storeVars, lockVars, runVars, gmVars, recVars, err, rt>>

\* checks (check_setup.py:150-157)
checks ==
    <<"check_windows", "check_python_version", "check_dependencies", "check_ffmpeg",
      "check_env_file", "check_directories">>

\* what a check can do.  check_windows tests platform.system(); check_ffmpeg
\* catches every Exception; check_dependencies catches ImportError only, and
\* check_env_file reads the file outside any try (check_setup.py:13-140)
CheckOutcomes(c) ==
    CASE c = "check_windows" -> {IF platform_system = "Windows" THEN "true" ELSE "false"}
      [] c \in {"check_dependencies", "check_env_file"} -> {"true", "false", "raise"}
      [] OTHER -> {"true", "false"}

\* an any() in the place of all()
any(r) == \E k \in 1..Len(r) : r[k]

\* all(results)
all(r) == \A k \in 1..Len(r) : r[k]

SetupInit ==
    /\ Init
    /\ env = [n \in CredNames |-> ValidCred] /\ argv = "single"

\* result = check_func(); results.append(result) (check_setup.py:161-164)
RunCheck ==
    /\ setup_pc = "checks" /\ Len(results) < Len(checks)
    /\ \E out \in CheckOutcomes(checks[Len(results) + 1]) :
          IF out = "raise"
             THEN /\ setup_pc' = "traceback" /\ setup_exit' = 1
                  /\ results' = results
             ELSE /\ results' = Append(results, out = "true")
                  /\ UNCHANGED <<setup_pc, setup_exit>>
    /\ UNCHANGED <<progVars, wlVars, procs, ki, auditVars, gdVars>>

\* return all(results); sys.exit(0 if success else 1) (check_setup.py:166-182)
SetupReport ==
    /\ setup_pc = "checks" /\ Len(results) = Len(checks)
    /\ setup_exit' = IF all(results) THEN 0 ELSE 1
    /\ setup_pc' = "exit"
    /\ UNCHANGED <<progVars, wlVars, procs, ki, results, auditVars, gdVars>>

SetupNext == RunCheck \/ SetupReport

SpecSetup == SetupInit /\ [][SetupNext]_vars

\* --------------------------------- one run, up to the return of generate_music

\* python main.py (single mode) with valid credentials
MusicInit ==
    /\ Init
    /\ platform_system = "Windows"
    /\ env = [n \in CredNames |-> ValidCred] /\ argv = "single"

\* the run until generate_music has returned its payload (the thread is at
\* the download) or the run has failed, every status fetch being counted
MusicNext ==
    \/ PlatformCheck \/ Construct \/ Dispatch \/ StartRun \/ Acquire \/ Prompt
    \/ Submit \/ PollSleep \/ PollTimeout \/ CountedFetch \/ RetryExcept \/ Extract
    \/ Except \/ Release \/ SingleReturned

SpecMusic == MusicInit /\ [][MusicNext]_vars

\* ------------------------- generate_and_download on every shape of payload

\* generate_music returns the payload of the completed job (suno.py:164)
ReceivePayload ==
    /\ gd_pc = "generate"
    /\ \E p \in Payloads : result_data' = p
    /\ gd_pc' = "search"
    /\ UNCHANGED <<progVars, wlVars, procs, ki, setupVars, auditVars, audio_url>>

\* the search of the payload (suno.py:166-180)
LocateUrl ==
    /\ gd_pc = "search"
    /\ audio_url' = FindAudioUrl(result_data)
    /\ gd_pc' = "found"
    /\ UNCHANGED <<progVars, wlVars, procs, ki, setupVars, auditVars, result_data>>

\* if not audio_url: raise ValueError; else download_audio is called
\* (suno.py:182-189)
UseUrl ==
    /\ gd_pc = "found"
    /\ gd_pc' = IF audio_url = "none" THEN "raised" ELSE "download"
    /\ UNCHANGED <<progVars, wlVars, procs, ki, setupVars, auditVars, result_data,
                   audio_url>>

PayloadNext == ReceivePayload \/ LocateUrl \/ UseUrl

SpecPayload == MusicInit /\ [][PayloadNext]_vars

\* ------------------------------------------------------------------ claims

IsPrefix(s, t) == Len(s) <= Len(t) /\ \A k \in 1..Len(s) : s[k] = t[k]
InSteps(x) == \E k \in 1..Len(steps) : steps[k] = x
LastStep == IF steps = <<>> THEN "none" ELSE steps[Len(steps)]

\* positions at which a step of run_pipeline is executing
StepPcs == {"prompt", "gm_submit", "gm_poll", "gm_fetch", "retry_except", "extract",
            "dl", "meta", "thumb", "mux", "up_args", "up_video", "up_thumb", "persist"}

\* job completion, audio download, asset generation, mux and upload of the
\* current run have all succeeded
StepsSucceeded ==
    /\ timestamp_id \in audio_files /\ has_metadata /\ timestamp_id \in thumb_files
    /\ timestamp_id \in video_files /\ published >= 1 /\ thumbs_set >= 1

\* C1: after run_pipeline has ended (and was not a duplicate skip), the record
\* file of the run's id exists if and only if every fallible step of the run
\* (job, download, metadata, thumbnail, mux, video and thumbnail upload)
\* succeeded.
C1_RecordIffStepsSucceeded ==
    (pc = "returned" /\ result # "skipped")
        => ((timestamp_id \in records) <=> StepsSucceeded)

\* C2 as stated: at the end of a run, a video published by the run implies
\* that the run's record was persisted (stated for the runs whose metadata
\* holds every key, where building the record cannot fail).
C2_PublishedImpliesRecord ==
    (pc = "returned" /\ published > 0 /\ metadata = AllKeys)
        => timestamp_id \in records

\* C2 amended: persistence is the last step: a record written by the run
\* implies that the run has published a video and set its thumbnail, all six
\* steps having been invoked in order; a run that ends FAILED with a
\* published video failed in the upload step or while building the record.
C2_RecordImpliesPublished ==
    /\ (timestamp_id \in records /\ result # "skipped")
          => (result = "ok" /\ published >= 1 /\ thumbs_set = 1 /\ steps = StepOrder)
    /\ result = "ok" => timestamp_id \in records
    /\ (result = "raised" /\ published > 0) => LastStep \in {"upload", "persist"}

C2_Witness == pc = "returned" /\ result = "ok" /\ published = 1 /\ thumbs_set = 1

\* C3 as stated: a submission error, a reported generation failure or a poll
\* timeout is not retried inside the run: the error in flight leaves
\* generate_music for the orchestrator's except clause.
C3_NotRetriedInsideRun ==
    [][(pc = "retry_except" /\ rt.call = "gm"
            /\ err \in {"submission", "generation", "timeout"}) => pc' = "except"]_vars

\* C3 amended: these errors are retried inside the run by the retry wrapper
\* of generate_music, each try a fresh submission, at most 3 submissions per
\* run; the error of the third try aborts the run, and once the run is aborted
\* (or past the audio step) no job is submitted and no status fetched in it.
C3_RetriedUpToThreeTries ==
    [][ /\ submits' <= 3
        /\ (pc = "retry_except" /\ rt.call = "gm" /\ rt.tries = 1) => pc' = "except"
        /\ (pc = "retry_except" /\ rt.call = "gm" /\ rt.tries > 1) => pc' = "gm_submit"
        /\ (pc # "loop" /\ (pc \in {"except", "finally"} \/ LastStep \notin {"none", "audio"}))
              => (submits' = submits /\ pc' \notin {"gm_submit", "gm_poll", "gm_fetch"})
      ]_vars

C3_Witness == pc = "except" /\ rt.call = "gm" /\ err = "timeout" /\ submits = 3

\* C4 as stated: when the first fetch of a job reports the failure status the
\* Job Poller raises the generation error to its caller immediately and
\* fetches no more.
C4_FailedFirstFetchEndsPoller ==
    [][(pc = "retry_except" /\ lastAnswer = "error" /\ jobFetches = 1)
            => pc' = "except"]_vars

\* C4 amended: when the first fetch of a job reports the failure status, the
\* poll loop raises the generation error at once, after that single fetch, and
\* the job is never fetched again; the retry wrapper then submits a fresh job
\* unless this was the third try, and only then the error reaches the caller.
C4_FailedFirstFetchRaises ==
    /\ [](lastAnswer = "error"
            => (pc = "retry_except" /\ err = "generation" /\ jobFetches = attempt))
    /\ [][(lastAnswer = "error" /\ jobFetches = 1)
            => (/\ task_id' = 0 /\ jobFetches' = 0
                /\ pc' = IF rt.tries = 1 THEN "except" ELSE "gm_submit")]_vars

C4_Witness == pc = "retry_except" /\ lastAnswer = "error" /\ jobFetches = 1 /\ attempt = 1

\* C5 as stated: with a status sequence that never reaches a terminal state
\* the Job Poller fails with the poll-timeout error after exactly 60 status
\* fetches, those of the one submitted job.
C5_TimeoutAfterSixtyFetches ==
    (pc = "except" /\ err = "timeout" /\ nominal)
        => submits * max_attempts = max_attempts

\* C5 amended: with a status sequence that never reaches a terminal state,
\* every submitted job gets exactly 60 status fetches, each preceded by one
\* sleep of 5 s, and then the poll-timeout error is raised for that try; the
\* retry wrapper submits again, so the Job Poller fails with the poll-timeout
\* error after 3 jobs, 180 fetches.
C5_SixtyFetchesPerJob ==
    /\ (pc = "retry_except" /\ err = "timeout")
          => (jobFetches = 60 /\ attempt = 60 /\ jobSlept = 60 * 5)
    /\ pc \in {"gm_poll", "gm_fetch"}
          => /\ jobFetches <= 60
             /\ jobSlept = 5 * (jobFetches + (IF pc = "gm_fetch" THEN 1 ELSE 0))
    /\ (pc = "except" /\ err = "timeout" /\ nominal) => submits = 3

C5_Witness == pc = "except" /\ err = "timeout" /\ nominal /\ submits = 3

\* C6: the poll loop returns at the first fetch that reports complete: after
\* exactly k fetches when that is fetch k (k <= 60), and, when no answer
\* before was an error or a timeout, after one submission; [in_progress,
\* in_progress, complete] returns after 3 fetches.
C6_ReturnsAtFirstComplete ==
    /\ lastAnswer = "complete" => pc = "extract"
    /\ pc = "extract"
          => (lastAnswer = "complete" /\ jobFetches = attempt /\ attempt \in 1..60)
    /\ (pc = "extract" /\ nominal /\ rt.tries = 3) => (submits = 1 /\ rt.calls = 1)

C6_Witness ==
    pc = "extract" /\ nominal /\ rt.tries = 3 /\ jobFetches = 3 /\ submits = 1

\* C7: the retry wrapper with tries=3, delay=5, backoff=2 (download_audio,
\* generate_video_metadata) around a call that always fails invokes it exactly
\* 3 times, waits 5 s after the first failure and 10 s after the second, does
\* not wait after the third, and then propagates the last error.
C7_ThreeTriesWaitsFiveTen ==
    rt.call \in {"dl", "meta"} =>
        /\ rt.tries = 3 => rt.waits = <<>>
        /\ rt.tries = 2 => rt.waits = <<5>>
        /\ rt.tries = 1 => rt.waits = <<5, 10>>
        /\ rt.tries = 0 => /\ rt.waits = <<5, 10>>
                           /\ rt.calls = 3
                           /\ err \in {"http", "openai"}
                           /\ pc \notin {"retry_except", "dl", "meta"}

C7_Witness == pc = "except" /\ rt.call = "dl" /\ rt.tries = 0 /\ rt.calls = 3

\* C8: the steps of a run are invoked only in the order prompt, audio, assets,
\* mux, upload, persist; a step that raises sends the run to FAILED and no
\* later step of the run is invoked.
C8_StepsInOrder ==
    /\ [](IsPrefix(steps, StepOrder))
    /\ [][pc = "except" => (result' = "raised" /\ pc' = "finally")]_vars
    /\ [][(pc = "except" \/ result = "raised")
            => (steps' = steps \/ (pc = "loop" /\ steps' = <<>>))]_vars

C8_Witness ==
    pc = "returned" /\ result = "raised" /\ steps = <<"prompt", "audio", "assets", "mux">>

\* C9: the mux is invoked only when the audio file and the thumbnail of the
\* run exist, and the upload only when the muxed video and the metadata exist.
C9_InputsExist ==
    /\ InSteps("mux") => (timestamp_id \in audio_files /\ timestamp_id \in thumb_files)
    /\ InSteps("upload") => (timestamp_id \in video_files /\ has_metadata)

C9_Witness == pc = "up_video" /\ InSteps("mux") /\ InSteps("upload")

\* C10 as stated: whenever a step of the run is executing the run's wake lock
\* is active.
C10_LockHeldDuringSteps == pc \in StepPcs => is_locked

\* C10 amended: whenever a step of the run is executing, the run's wake lock
\* is active if and only if the OS call of acquire() returned non-zero: a
\* failed acquire is only logged and the run goes on without a wake lock, and
\* a lock that was acquired is held until the finally clause.
C10_LockHeldWhenAcquired == pc \in (StepPcs \cup {"except"}) => (is_locked = acq_ok)

C10_Witness == pc = "persist" /\ is_locked /\ acq_ok

\* positions at which no run_pipeline call is in progress
AfterRunPcs == {"returned", "delay", "loop", "main_end", "exit"}

\* C11 as stated: whenever run_pipeline has returned or raised, during the
\* inter-run delay and after the batch, the run's wake lock is not held:
\* neither marked held nor in force in the thread's execution state.
C11_LockNotHeldAfterRun == pc \in AfterRunPcs => (~is_locked /\ ~es_awake)

\* C11 amended: whenever run_pipeline has returned or raised, during the
\* inter-run delay and after the batch, the run's WakeLock is marked not held;
\* release() never sets the OS requirement, and nothing changes it between
\* runs, but it clears it only when its OS call succeeds.
C11_LockMarkedReleasedAfterRun ==
    /\ [](pc \in AfterRunPcs => ~is_locked)
    /\ [][pc = "finally" => (~is_locked' /\ (es_awake' => es_awake))]_vars
    /\ [][(pc \in AfterRunPcs /\ pc' \in AfterRunPcs) => es_awake' = es_awake]_vars

C11_Witness == pc = "delay" /\ acq_ok /\ ~is_locked /\ ~es_awake

\* C12: run_multiple(count) calls run_pipeline exactly count times whatever
\* runs fail: every run that has ended, failed ones included, is counted once
\* and the loop then stands at the next index, and when the batch ends
\* count runs were made and successful + failed = count.
C12_CountRunsWhateverFails ==
    argv = "loop" =>
        /\ runs <= Count
        /\ pc = "main_end" => (runs = Count /\ i = Count /\ successful + failed = Count)
        /\ pc = "loop" => (runs = i /\ successful + failed = i)
        /\ pc = "delay" => (runs = i + 1 /\ successful + failed = i + 1)
        /\ (runs > 0 /\ pc \notin {"loop", "delay", "main_end", "exit"})
              => (runs = i + 1 /\ successful + failed = i)

C12_Witness ==
    pc = "main_end" /\ argv = "loop" /\ runs = Count /\ failed >= 1 /\ successful >= 1
        /\ delays = 0

\* C13: at the end of a batch the reported successful count equals the number
\* of record files written during the batch and the failed count the number of
\* runs that wrote none.
C13_CountsMatchRecords ==
    (pc = "main_end" /\ argv = "loop")
        => (successful = Cardinality(records) /\ failed = runs - Cardinality(records))

\* C14: has_completed (check_duplicate) is false for every run id whose record
\* was never written, and true for the id of a run that completed
\* successfully from that moment on, in every later state.
C14_HasCompleted ==
    /\ \A t \in RunIds : writes[t] = 0 => ~check_duplicate(t)
    /\ result = "ok" => check_duplicate(timestamp_id)
    /\ \A t \in RunIds : writes[t] > 0 => check_duplicate(t)

C14_Witness ==
    /\ pc = "returned" /\ result = "skipped" /\ writes[timestamp_id] = 1
    /\ \E t \in RunIds : ~check_duplicate(t)

\* C15 as stated: a run started with the run id of the run before it (the same
\* second) is treated as a duplicate and skipped.
C15_SameSecondSkipped ==
    [][(runs' = runs + 1 /\ timestamp_id' = timestamp_id) => result' = "skipped"]_vars

\* C15 amended: a run is skipped exactly when the record file of its run id
\* exists at its start; a run started with the run id of the run before it is
\* skipped exactly when that run wrote its record or was itself skipped, and
\* runs the pipeline under the same run id when that run failed.
C15_SkippedIffRecordExists ==
    [][runs' = runs + 1
          => /\ (result' = "skipped") <=> (writes[timestamp_id'] > 0)
             /\ timestamp_id' = timestamp_id
                   => ((result' = "skipped") <=> (result \in {"ok", "skipped"}))]_vars

C15_Witness ==
    pc = "returned" /\ result = "skipped" /\ runs = 2 /\ records = {timestamp_id}

\* C16: over sequential runs the record file of a run id is written at most
\* once: once it exists no later run writes it again or removes it.
C16_WrittenAtMostOnce ==
    \A t \in RunIds : writes[t] <= 1 /\ (t \in records <=> writes[t] = 1)

C16_Witness ==
    pc = "main_end" /\ runs = Count /\ result = "skipped" /\ writes[timestamp_id] = 1

\* C17: the process exits with code 1 whenever a pipeline run failed, in
\* single-run mode and in batch mode, and with code 0 only when every run
\* succeeded.
C17_ExitOneOnAnyFailure ==
    pc = "exit" => /\ (failed > 0 \/ result = "raised") => exit_code = 1
                   /\ exit_code = 0 => (failed = 0 /\ result # "raised")

\* a credential that is missing, empty or a placeholder starting with 'your_'
BadCredential(v) ==
    \/ ~v.set
    \/ v.text = <<>>
    \/ (Len(v.text) >= 5 /\ SubSeq(v.text, 1, 5) = <<"y", "o", "u", "r", "_">>)

\* C18: if a required credential is missing, empty or a placeholder starting
\* with 'your_', the process exits with code 1 before any API client is
\* constructed, any request is made or any pipeline step starts.
C18_ConfigErrorBeforeAnything ==
    (\E n \in CredNames : BadCredential(env[n]))
        => /\ ~clients /\ runs = 0 /\ submits = 0 /\ steps = <<>> /\ published = 0
           /\ pc \in {"main", "construct", "exit"}
           /\ pc = "exit" => exit_code = 1

C18_Witness ==
    /\ pc = "exit" /\ exit_code = 1 /\ platform_system = "Windows" /\ ~clients
    /\ env["OPENAI_API_KEY"].text = <<"y", "o", "u", "r", "_", "k">>
    /\ \A n \in CredNames \ {"OPENAI_API_KEY"} : ~BadCredential(env[n])

\* C19: one pipeline run publishes at most one video on the upload service,
\* whatever upload failures and retries occur inside the run.
C19_AtMostOneVideo == published <= 1

\* C20: a submission whose acknowledgement code is not success, or that
\* carries no job id, raises the submission error from that try at once, and
\* no status is fetched for it: polling and fetching happen only under a good
\* acknowledgement, for the job id it carried.
C20_BadAckNoFetch ==
    /\ (ack # NoAck /\ (ack.code # "success" \/ ack.data # "id"))
          => (pc = "retry_except" /\ err = "submission" /\ task_id = 0
              /\ jobFetches = 0 /\ attempt = 0)
    /\ pc \in {"gm_poll", "gm_fetch", "extract"}
          => (ack.code = "success" /\ ack.data = "id" /\ task_id = submits
              /\ task_id >= 1)
    /\ jobFetches > 0 => (task_id >= 1 /\ ack.data = "id")

C20_Witness ==
    /\ pc = "retry_except" /\ err = "submission" /\ jobFetches = 0
    /\ ack = [code |-> "success", data |-> "empty"]

\* C21: when a job completes with a payload that holds no media URL, the run
\* fails with the malformed-result error before a download is attempted: the
\* download wrapper is never entered, no later step is invoked, nothing is
\* published and the run writes no record.
C21_MalformedBeforeDownload ==
    /\ \A p \in Payloads :
          (p.clips # "url" /\ p.audio_url # "url" /\ p.data # "url")
              => FindAudioUrl(p) = "none"
    /\ err = "malformed"
          => /\ rt.call = "gm" /\ steps = <<"prompt", "audio">>
             /\ ~has_metadata /\ published = 0 /\ thumbs_set = 0
             /\ result \in {"none", "raised"} /\ timestamp_id \notin records
             /\ pc \in {"except", "finally"} \cup AfterRunPcs

C21_Witness ==
    pc = "returned" /\ result = "raised" /\ err = "malformed" /\ nominal /\ submits = 1

\* C23: the batch runner waits the inter-run delay between every two
\* consecutive runs, after a successful run and after a failed run alike, and
\* not after the last run: a batch of count runs has waited count - 1 times
\* when it ends.
C23_DelayBetweenAllRuns ==
    (pc = "main_end" /\ argv = "loop") => delays = Count - 1

C27_OtherAnswersKeepPolling ==
    lastAnswer \in {"unexpected", "in_progress"}
        => /\ pc \in {"gm_poll", "gm_fetch", "retry_except"}
           /\ task_id >= 1 /\ task_id = submits
           /\ jobFetches \in 1..max_attempts
           /\ pc = "gm_poll" => attempt = jobFetches
           /\ pc = "gm_fetch" => attempt = jobFetches + 1
           /\ pc = "retry_except"
                 => (err = "timeout" /\ attempt = max_attempts
                     /\ jobFetches = max_attempts)

C27_Witness ==
    pc = "gm_fetch" /\ lastAnswer = "unexpected" /\ jobFetches = 2 /\ attempt = 3

\* C28: upload_video is called at most 3 times per run, after waits of 10 s
\* and 20 s; when the third call fails the error propagates and the run fails
\* without a thumbnail upload and without a record.
C28_UploadThreeTriesTenTwenty ==
    rt.call = "up_video" =>
        /\ rt.calls <= 3 /\ thumbs_set = 0 /\ timestamp_id \notin records
        /\ rt.tries = 3 => rt.waits = <<>>
        /\ rt.tries = 2 => rt.waits = <<10>>
        /\ rt.tries = 1 => rt.waits = <<10, 20>>
        /\ rt.tries = 0 => /\ rt.waits = <<10, 20>> /\ rt.calls = 3
                           /\ err = "upload" /\ result \in {"none", "raised"}
                           /\ LastStep = "upload"
                           /\ pc \in {"except", "finally"} \cup AfterRunPcs

C28_Witness ==
    pc = "returned" /\ result = "raised" /\ rt.call = "up_video" /\ rt.tries = 0
        /\ rt.calls = 3

C25_HeldLockKeepsAwake ==
    (\E l \in LockNames : locks[l]) => es_awake

\* C26: under concurrent invocation the duplicate check is racy: a process is
\* skipped only when the record file of its run id exists, never because
\* another process is running under the same run id, so every process that
\* passed the check and did not fail writes the record file, and a file is
\* written as often as processes ran the whole pipeline under its id; the
\* state in which both processes have written the same file is reachable.
C26_CheckSeesRecordsOnly ==
    /\ \A p \in Procs :
          /\ procs[p].pc = "skipped" => procs[p].id \in records
          /\ procs[p].pc = "done"
                => (procs[p].id \in records /\ procs[p].step = Len(StepOrder))
    /\ \A t \in RunIds :
          writes[t] = Cardinality({p \in Procs : procs[p].pc = "done" /\ procs[p].id = t})

C26_Witness ==
    /\ \A p \in Procs : procs[p].pc = "done" /\ procs[p].step = Len(StepOrder)
    /\ procs["P1"].id = procs["P2"].id
    /\ writes[procs["P1"].id] = 2

\* C29: a KeyboardInterrupt received during a batch ends the process with
\* exit code 0, without any further run being started and without a record
\* of the interrupted run having been written.
C29_InterruptEndsProcess ==
    (argv = "loop" /\ ki # "none")
        => /\ pc = "exit" /\ exit_code = 0
           /\ ki = "in_run" => timestamp_id \notin records

\* C30 as stated: the setup verification runs all six checks whatever the
\* outcome of earlier checks, and its exit code is 0 if and only if every
\* check returned true.
C30_AllSixChecksRun ==
    setup_exit # -1
        => /\ Len(results) = 6
           /\ setup_exit = 0 <=> \A k \in 1..6 : results[k]

\* C30 amended: the verification runs all six checks whatever the earlier
\* checks returned, and then exits with 0 if and only if every check returned
\* true and with 1 otherwise; it ends before the remaining checks, with a
\* traceback and exit status 1, only when check_dependencies or
\* check_env_file raises.
C30_SixChecksUnlessOneRaises ==
    /\ Len(results) <= 6
    /\ setup_pc = "checks" => setup_exit = -1
    /\ setup_pc = "exit"
          => /\ Len(results) = 6
             /\ setup_exit \in {0, 1}
             /\ setup_exit = 0 <=> \A k \in 1..6 : results[k]
    /\ setup_pc = "traceback"
          => /\ setup_exit = 1
             /\ Len(results) \in {2, 4}

C30_Witness ==
    /\ setup_pc = "exit" /\ setup_exit = 1
    /\ results = <<FALSE, TRUE, TRUE, TRUE, TRUE, TRUE>>

C32_JobsAndFetchesBounded ==
    /\ submits <= 3
    /\ rt.call = "gm" => (submits <= rt.calls /\ rt.calls <= 3)
    /\ fetched_total <= 180 /\ fetched_total <= 60 * submits
    /\ jobFetches <= 60 /\ jobFetches <= fetched_total
    /\ last_fetched_id <= submits
    /\ jobFetches > 0 => (last_fetched_id = submits /\ task_id = submits)
    /\ fetched_total > 60 * (submits - 1) => last_fetched_id = submits

C32_Witness ==
    /\ submits = 3 /\ fetched_total = 180 /\ last_fetched_id = 3
    /\ pc = "returned" /\ result = "raised" /\ err = "timeout"

\* C33: generate_and_download locates the audio URL whenever the completed
\* payload holds a non-empty one in the first entry of clips, in the top-level
\* audio_url or in the first entry of data, whatever the other two fields
\* hold, and then goes on to the download.
C33_LocatesUrlInAnyPlace ==
    (gd_pc \in {"found", "download", "raised"}
       /\ (\/ result_data.clips = "url"
           \/ result_data.audio_url = "url"
           \/ result_data.data = "url"))
        => (audio_url = "url" /\ gd_pc # "raised")

\* ------------------------------------------------------------- termination

\* the interpreter runs the program: as long as a step of the program is
\* possible, a step is taken (no call blocks for ever: every external call
\* of the model returns or raises within its action)
SpecLive == Init /\ [][Next]_vars /\ WF_vars(Next)

\* C34: every invocation of run_pipeline returns and every batch ends, so the
\* program reaches its exit, as long as every individual external call
\* returns or raises. Violated: the chunk loop of upload_video calls
\* next_chunk again for as long as the call returns no response, and each of
\* these calls returns.
C34_Terminates == <>(pc = "exit")
\* the same for one invocation of run_pipeline: once the wake lock is
\* requested, the invocation returns
C34_RunReturns == (pc = "acquire") ~> (pc = "returned")

\* ------------------------------------------------- acquire / release algebra

\* the call that a step of the two-instance thread has appended to the log
LastCall == lock_log'[Len(lock_log')]
Called(l, c) ==
    /\ Len(lock_log') = Len(lock_log) + 1
    /\ LastCall.lock = l /\ LastCall.call = c

\* C35: for a WakeLock instance and any sequence of acquire() and release()
\* calls: acquire() on a held lock and release() on a lock that is not held
\* change nothing and make no OS call; after any release() is_active() is
\* false, also when the OS call returns 0 or raises; after an acquire() whose
\* OS call returns 0 or raises is_active() stays false.
C35_AcquireReleaseAlgebra ==
    [][\A l \in LockNames :
          /\ (Called(l, "acquire") /\ locks[l])
                => (LastCall.os = "none" /\ UNCHANGED <<locks, es_awake>>)
          /\ (Called(l, "release") /\ ~locks[l])
                => (LastCall.os = "none" /\ UNCHANGED <<locks, es_awake>>)
          /\ Called(l, "release") => ~locks'[l]
          /\ (Called(l, "acquire") /\ ~locks[l] /\ LastCall.os \in {"zero", "raise"})
                => ~locks'[l]
          /\ (Called(l, "acquire") \/ Called(l, "release"))
                => \A k \in LockNames \ {l} : locks'[k] = locks[k]]_vars

\* A is acquired, acquired again while held, and released with an OS call
\* that raises: the lock is not held
C35_Witness ==
    /\ Len(lock_log) = 3
    /\ lock_log[1] = [lock |-> "A", call |-> "acquire", os |-> "nonzero"]
    /\ lock_log[2] = [lock |-> "A", call |-> "acquire", os |-> "none"]
    /\ lock_log[3] = [lock |-> "A", call |-> "release", os |-> "raise"]
    /\ ~locks["A"]
\* an acquire whose OS call returned 0, followed by a release that has nothing
\* to release
C35_WitnessFailedAcquire ==
    /\ Len(lock_log) = 2
    /\ lock_log[1] = [lock |-> "A", call |-> "acquire", os |-> "zero"]
    /\ lock_log[2] = [lock |-> "A", call |-> "release", os |-> "none"]
    /\ ~locks["A"] /\ ~es_awake

====
